---- MODULE Spec2Model ----
(***************************************************************************)
(* A model of the vscode-literate extension: the CacheManager (content     *)
(* fingerprint, one JSON file per entry), and the generate command of      *)
(* LiteratePanelManager.                                                    *)
(***************************************************************************)
EXTENDS Integers, Sequences, FiniteSets, TLC

VARIABLES
    keyArgs,      \* SpecKey: the two argument triples handed to getCacheKey
    keyOut,       \* SpecKey: what each call returned
    dirExists,    \* the file system: does ~/.cache/mathematic-literate exist
    files,        \* the file system: cache path -> [exists, data]
    cm,           \* the CacheManager instance: "none" | "ready" | "threw"
    last,         \* the last CacheManager call: arguments, outcome, fault
    writeCount,   \* number of fs.writeFileSync calls made so far
    secrets,      \* context.secrets: the stored API key, "" when there is none
    globalState,  \* context.globalState: the stored skill level, "" when none
    _panel,             \* LiteratePanelManager._panel is set
    _documentation,     \* LiteratePanelManager._documentation
    _currentEditor,     \* LiteratePanelManager._currentEditor
    _selectionListener, \* LiteratePanelManager._selectionListener
    _abortController,   \* LiteratePanelManager._abortController: the command
                        \* whose controller it holds, 0 when undefined
    html,         \* what the webview shows: [shown, doc, fileName]
    cmd,          \* the runs of the literate.generateDocs command
    sess,         \* the calls of DocumentationGenerator.generate
    abortController, \* DocumentationGenerator.abortController: the call
                     \* whose controller it holds, 0 when undefined
    sourceText,   \* the text of the document handed to the model call
    userMessage,  \* the content of the user message built from it
    wv            \* the WebviewManager, its panel, listener and editors

keyVars == <<keyArgs, keyOut>>
cacheVars == <<dirExists, files, cm, last, writeCount>>
extVars ==
    <<secrets, globalState, _panel, _documentation, _currentEditor,
      _selectionListener, _abortController, html, cmd>>
genVars == <<sess, abortController>>
txVars == <<sourceText, userMessage>>
wvVars == <<wv>>
vars ==
    <<keyArgs, keyOut, dirExists, files, cm, last, writeCount, secrets,
      globalState, _panel, _documentation, _currentEditor, _selectionListener,
      _abortController, html, cmd, sess, abortController, sourceText,
      userMessage,
      wv>>

----------------------------------------------------------------------------
(* Bounds *)

\* largest line number used in a LineRange of the documents tried
MaxLine == 2
\* writeFileSync calls explored in one behaviour
MaxWrites == 2
\* runs of the literate.generateDocs command in one behaviour
MaxCmds == 2
\* calls of DocumentationGenerator.generate in one behaviour
MaxSessions == 2
\* longest document text tried for the user message, in characters
MaxTextLen == 9

----------------------------------------------------------------------------
(* Strings are sequences of code points ("a" is 97); bytes are numbers.    *)

\* hash.update(string) hashes the UTF-8 encoding of the string: one byte up
\* to U+007F, two bytes up to U+07FF
Utf8Char(cp) ==
    IF cp < 128 THEN <<cp>> ELSE <<192 + (cp \div 64), 128 + (cp % 64)>>

RECURSIVE Utf8(_)
Utf8(s) == IF s = <<>> THEN <<>> ELSE Utf8Char(Head(s)) \o Utf8(Tail(s))

SkillLevels == {"beginner", "intermediate", "advanced"}

\* the code points of a SkillLevel value
SkillLevelText(skillLevel) ==
    CASE skillLevel = "beginner" -> <<98, 101, 103, 105, 110, 110, 101, 114>>
      [] skillLevel = "intermediate" ->
            <<105, 110, 116, 101, 114, 109, 101, 100, 105, 97, 116, 101>>
      [] skillLevel = "advanced" -> <<97, 100, 118, 97, 110, 99, 101, 100>>

\* crypto.createHash("sha256"): an empty buffer; update appends the bytes
createHash == <<>>
hashUpdate(hash, s) == hash \o Utf8(s)
\* digest("hex"): SHA-256 taken as injective on the bytes it was fed
hashDigest(hash) == [sha256 |-> hash]

\* a getCacheKey that leaves the skill level out
getCacheKeyNoLevel(filePath, content, skillLevel) ==
    hashDigest(hashUpdate(hashUpdate(createHash, filePath), content))

getCacheKey(filePath, content, skillLevel) ==
    hashDigest(
        hashUpdate(
            hashUpdate(hashUpdate(createHash, filePath), content),
            SkillLevelText(skillLevel)))

CacheDir == ".cache/mathematic-literate"

getCachePath(cacheKey) == [dir |-> CacheDir, name |-> cacheKey, ext |-> ".json"]

----------------------------------------------------------------------------
(* The inputs tried *)

\* "a", "ab"
FilePaths == {<<97>>, <<97, 98>>}
\* "c", "bc", and U+00E9 (two bytes in UTF-8)
Contents == {<<99>>, <<98, 99>>, <<233>>}

Triples ==
    [filePath : FilePaths, content : Contents, skillLevel : SkillLevels]

\* getCacheKey on every triple tried, computed once
KeyTable ==
    [t \in Triples |-> getCacheKey(t.filePath, t.content, t.skillLevel)]

KeyOf(t) == KeyTable[t]

\* the triples handed to load, save and exists
StoreTriples ==
    {t \in Triples : /\ t.content # <<233>>
                     /\ t.skillLevel # "intermediate"
                     /\ (t.skillLevel = "advanced" => t.filePath = <<97>>)
                     /\ (t.skillLevel = "advanced" => t.content = <<99>>)}

StorePaths == {getCachePath(KeyOf(t)) : t \in StoreTriples}

----------------------------------------------------------------------------
(* Documentation values (types.ts) *)

Range(s, e) == [start |-> s, end |-> e]
Section(lines, text) == [lines |-> lines, text |-> text]
Documentation(sections) == [sections |-> sections]

EmptyDoc == Documentation(<<>>)

Docs ==
    { EmptyDoc,
      Documentation(<<Section(<<>>, "intro")>>),
      Documentation(<<Section(<<Range(1, MaxLine)>>, "body")>>) }

----------------------------------------------------------------------------
(* JSON: the text is a sequence of tokens (white space carries nothing)    *)

\* the strings that occur as keys or as text
JsonStrings == {"sections", "lines", "text", "start", "end", "", "intro", "body"}
Numbers == 0..MaxLine

Quote(s) == "\"" \o s \o "\""
QuotedStrings == {Quote(s) : s \in JsonStrings}
NumberTokens == {ToString(n) : n \in Numbers}
IsStringToken(tok) == tok \in QuotedStrings
Unquote(tok) == CHOOSE s \in JsonStrings : Quote(s) = tok
IsNumberToken(tok) == tok \in NumberTokens
parseNumber(tok) == CHOOSE n \in Numbers : ToString(n) = tok

RECURSIVE Join(_, _)
\* the token sequences of seqs, separated by commas
Join(seqs, i) ==
    IF i > Len(seqs) THEN <<>>
    ELSE IF i = Len(seqs) THEN seqs[i]
    ELSE seqs[i] \o <<",">> \o Join(seqs, i + 1)

stringifyRange(r) ==
    <<"{", Quote("start"), ":", ToString(r.start), ",",
      Quote("end"), ":", ToString(r.end), "}">>

stringifySection(s) ==
    <<"{", Quote("lines"), ":", "[">>
    \o Join([i \in 1..Len(s.lines) |-> stringifyRange(s.lines[i])], 1)
    \o <<"]", ",", Quote("text"), ":", Quote(s.text), "}">>

\* a stringify that leaves out the line ranges of every section
stringifyNoLines(doc) ==
    <<"{", Quote("sections"), ":", "[">>
    \o Join([i \in 1..Len(doc.sections) |->
                stringifySection(Section(<<>>, doc.sections[i].text))], 1)
    \o <<"]", "}">>

\* JSON.stringify(documentation, null, 2)
stringify(doc) ==
    <<"{", Quote("sections"), ":", "[">>
    \o Join([i \in 1..Len(doc.sections) |-> stringifySection(doc.sections[i])], 1)
    \o <<"]", "}">>

ParseFail == [ok |-> FALSE, val |-> <<>>, next |-> 0]
ParseOk(v, next) == [ok |-> TRUE, val |-> v, next |-> next]
IsTok(toks, i, s) == i <= Len(toks) /\ toks[i] = s

RECURSIVE parseValue(_, _), parseElements(_, _, _), parseMembers(_, _, _)

\* one JSON value starting at token i
parseValue(toks, i) ==
    IF i > Len(toks) THEN ParseFail
    ELSE LET t == toks[i] IN
         CASE IsNumberToken(t) -> ParseOk(parseNumber(t), i + 1)
           [] IsStringToken(t) -> ParseOk(Unquote(t), i + 1)
           [] t = "[" ->
                IF IsTok(toks, i + 1, "]") THEN ParseOk(<<>>, i + 2)
                ELSE parseElements(toks, i + 1, <<>>)
           [] t = "{" ->
                IF IsTok(toks, i + 1, "}") THEN ParseOk(<<>>, i + 2)
                ELSE parseMembers(toks, i + 1, <<>>)
           [] OTHER -> ParseFail

\* the elements of an array, after "[" or ","
parseElements(toks, i, acc) ==
    LET v == parseValue(toks, i) IN
    IF ~v.ok THEN ParseFail
    ELSE IF IsTok(toks, v.next, "]") THEN ParseOk(Append(acc, v.val), v.next + 1)
    ELSE IF IsTok(toks, v.next, ",")
         THEN parseElements(toks, v.next + 1, Append(acc, v.val))
    ELSE ParseFail

\* the members of an object, after "{" or ",": "key" : value
parseMembers(toks, i, acc) ==
    IF ~(i <= Len(toks) /\ IsStringToken(toks[i]) /\ IsTok(toks, i + 1, ":"))
    THEN ParseFail
    ELSE LET v == parseValue(toks, i + 2) IN
         IF ~v.ok THEN ParseFail
         ELSE LET obj == (Unquote(toks[i]) :> v.val) @@ acc IN
              IF IsTok(toks, v.next, "}") THEN ParseOk(obj, v.next + 1)
              ELSE IF IsTok(toks, v.next, ",")
                   THEN parseMembers(toks, v.next + 1, obj)
              ELSE ParseFail

\* JSON.parse(data): the value, or a SyntaxError
JSONparse(toks) ==
    LET v == parseValue(toks, 1) IN
    IF v.ok /\ v.next = Len(toks) + 1
    THEN [threw |-> FALSE, val |-> v.val]
    ELSE [threw |-> TRUE, val |-> <<>>]

----------------------------------------------------------------------------
(* The file system under the cache directory *)

NoFile == [exists |-> FALSE, data |-> <<>>]
File(data) == [exists |-> TRUE, data |-> data]

\* fs.writeFileSync can fail before it opened the file (EACCES, ENOENT: the
\* file is as it was) or while writing (ENOSPC: the file was truncated on
\* open and holds a strict prefix of the data)
TruncPoints(data) == {0, Len(data) - 1}
NoFault == [kind |-> "none", k |-> 0]
WriteFaults(data) ==
    {NoFault, [kind |-> "open", k |-> 0]}
    \cup {[kind |-> "partial", k |-> k] : k \in TruncPoints(data)}
ReadFaults == {NoFault, [kind |-> "read", k |-> 0]}
MkdirFaults == {NoFault, [kind |-> "mkdir", k |-> 0]}

\* fs.writeFileSync(path, data): the files afterwards and whether it threw
writeFileSync(fs, path, data, fault) ==
    CASE fault.kind = "none" ->
            [threw |-> FALSE, files |-> [fs EXCEPT ![path] = File(data)]]
      [] fault.kind = "open" -> [threw |-> TRUE, files |-> fs]
      [] fault.kind = "partial" ->
            [threw |-> TRUE,
             files |-> [fs EXCEPT ![path] = File(SubSeq(data, 1, fault.k))]]

----------------------------------------------------------------------------
(* CacheManager (cache-manager.ts) *)

Void == [kind |-> "void", val |-> EmptyDoc, flag |-> FALSE]
Null == [kind |-> "null", val |-> EmptyDoc, flag |-> FALSE]
Value(v) == [kind |-> "value", val |-> v, flag |-> FALSE]
Bool(b) == [kind |-> "bool", val |-> EmptyDoc, flag |-> b]

\* ensureCacheDir: mkdirSync only when the directory is missing
ensureCacheDir(dirEx, fault) ==
    IF ~dirEx
    THEN IF fault.kind = "mkdir"
         THEN [threw |-> TRUE, dirExists |-> FALSE]
         ELSE [threw |-> FALSE, dirExists |-> TRUE]
    ELSE [threw |-> FALSE, dirExists |-> TRUE]

\* new CacheManager(): ensureCacheDir is called outside any try
constructor(dirEx, fault) == ensureCacheDir(dirEx, fault)

\* the try block of load: a return value, an exception, or falling through
loadTry(fs, t, fault) ==
    LET cachePath == getCachePath(KeyOf(t)) IN
    IF fs[cachePath].exists
    THEN IF fault.kind = "read"
         THEN [threw |-> TRUE, returned |-> FALSE, val |-> EmptyDoc]
         ELSE LET parsed == JSONparse(fs[cachePath].data) IN
              IF parsed.threw
              THEN [threw |-> TRUE, returned |-> FALSE, val |-> EmptyDoc]
              ELSE [threw |-> FALSE, returned |-> TRUE, val |-> parsed.val]
    ELSE [threw |-> FALSE, returned |-> FALSE, val |-> EmptyDoc]

\* a load whose catch rethrows
loadRethrow(fs, t, fault) ==
    LET r == loadTry(fs, t, fault) IN
    IF r.threw THEN [threw |-> TRUE, ret |-> Void, files |-> fs]
    ELSE IF r.returned THEN [threw |-> FALSE, ret |-> Value(r.val), files |-> fs]
    ELSE [threw |-> FALSE, ret |-> Null, files |-> fs]

load(fs, t, fault) ==
    LET r == loadTry(fs, t, fault) IN
    IF r.threw THEN [threw |-> FALSE, ret |-> Null, files |-> fs]
    ELSE IF r.returned THEN [threw |-> FALSE, ret |-> Value(r.val), files |-> fs]
    ELSE [threw |-> FALSE, ret |-> Null, files |-> fs]

\* a save whose catch rethrows
saveRethrow(fs, t, documentation, fault) ==
    LET w == writeFileSync(fs, getCachePath(KeyOf(t)), stringify(documentation), fault)
    IN [threw |-> w.threw, ret |-> Void, files |-> w.files]

\* a save that leaves an entry that is already there as it is
saveSkipIfPresent(fs, t, documentation, fault) ==
    IF fs[getCachePath(KeyOf(t))].exists
    THEN [threw |-> FALSE, ret |-> Void, files |-> fs]
    ELSE LET w == writeFileSync(fs, getCachePath(KeyOf(t)),
                                stringify(documentation), fault)
         IN [threw |-> FALSE, ret |-> Void, files |-> w.files]

save(fs, t, documentation, fault) ==
    LET w == writeFileSync(fs, getCachePath(KeyOf(t)), stringify(documentation), fault)
    IN [threw |-> FALSE, ret |-> Void, files |-> w.files]

exists(fs, t) ==
    [threw |-> FALSE, ret |-> Bool(fs[getCachePath(KeyOf(t))].exists), files |-> fs]

----------------------------------------------------------------------------
(* The extension (extension.ts): editors, stored settings, and the runs of *)
(* the literate.generateDocs command                                       *)

\* the open editors: the file name and the text of their documents
Editors == {"e1", "e2"}
NoEditor == "none"
EditorDocument(e) ==
    IF e = "e1" THEN [fileName |-> <<97>>, text |-> <<98, 99>>]
    ELSE [fileName |-> <<97, 98>>, text |-> <<99>>]

\* a key the input box accepts (validateInput: not empty, starts with sk-)
ApiKeys == {"sk-1"}

Cmds == 1..MaxCmds

\* a run that has not started
IdleCmd ==
    [pc |-> "idle", editor |-> NoEditor, apiKey |-> "", skillLevel |-> "",
     aborted |-> FALSE, invoked |-> FALSE, outcome |-> "none", msg |-> "none",
     doc |-> EmptyDoc]

NoHtml == [shown |-> FALSE, doc |-> EmptyDoc, fileName |-> <<>>]

\* the extension after activate: new LiteratePanelManager(extensionUri)
InitManager ==
    /\ _panel = FALSE
    /\ _documentation = EmptyDoc
    /\ _currentEditor = NoEditor
    /\ _selectionListener = "none"
    /\ _abortController = 0
    /\ html = NoHtml
    /\ cmd = [c \in Cmds |-> IdleCmd]

InitExtIdle ==
    /\ secrets = ""
    /\ globalState = ""
    /\ InitManager

----------------------------------------------------------------------------
(* DocumentationGenerator (documentation-generator.ts): its calls           *)

Sessions == 1..MaxSessions

\* the skillLevel argument at run time: a SkillLevel, undefined, or a string
\* that is none of the three
LevelInputs == SkillLevels \cup {"undefined", "expert"}

\* a call of generate that has not started; aborted is the signal of the
\* AbortController the call created, cancelRequested its progress token
IdleSession ==
    [pc |-> "idle", skillLevel |-> "undefined", prompt |-> "none",
     aborted |-> FALSE, cancelRequested |-> FALSE, calls |-> 0,
     returned |-> Null, thrown |-> "none", notice |-> FALSE]

\* new DocumentationGenerator()
InitGenerator ==
    /\ sess = [s \in Sessions |-> IdleSession]
    /\ abortController = 0

----------------------------------------------------------------------------
(* The user message of the model call, and the WebviewManager (state)       *)

NoText == [kind |-> "none", val |-> <<>>]

\* before any user message is built
InitTextIdle ==
    /\ sourceText = <<>>
    /\ userMessage = NoText

\* a JavaScript number: an integer or NaN
Num(n) == [nan |-> FALSE, n |-> n]
NaN == [nan |-> TRUE, n |-> 0]

\* no message from the webview is waiting
NoMessage == [command |-> "none", startLine |-> Num(0), endLine |-> Num(0)]

NoSelection == [set |-> FALSE, startLine |-> 0, endLine |-> 0]

\* new WebviewManager(extensionUri): no panel, no listener; handlerEditor and
\* listenerEditor are the currentEditor the two callbacks close over
InitWebviewManager ==
    wv = [panel |-> FALSE, selectionListener |-> "none",
          handlerEditor |-> NoEditor, listenerEditor |-> NoEditor,
          html |-> NoHtml, shownEditor |-> NoEditor,
          livePanels |-> 0, liveListeners |-> 0,
          selection |-> [e \in Editors |-> NoSelection],
          toExtension |-> NoMessage, highlighted |-> {},
          op |-> "none", arg |-> 0, posted |-> FALSE, threw |-> FALSE]

----------------------------------------------------------------------------
(* The calls of a client of CacheManager *)

AnyTriple == CHOOSE t \in StoreTriples : TRUE

Call(op, t, doc, fault, threw, ret, before) ==
    [op |-> op, triple |-> t, doc |-> doc, fault |-> fault, threw |-> threw,
     ret |-> ret, before |-> before]

NoCall == Call("none", AnyTriple, EmptyDoc, NoFault, FALSE, Void, NoFile)

Construct ==
    \E fault \in MkdirFaults :
      /\ fault.kind = "mkdir" => ~dirExists
      /\ \E r \in {constructor(dirExists, fault)} :
            /\ dirExists' = r.dirExists
            /\ cm' = IF r.threw THEN (IF cm = "ready" THEN "ready" ELSE "threw")
                     ELSE "ready"
            /\ last' = Call("constructor", AnyTriple, EmptyDoc, fault, r.threw,
                            Void, NoFile)
      /\ UNCHANGED <<files, writeCount, keyVars, extVars, genVars, txVars, wvVars>>

Load ==
    \E t \in StoreTriples, fault \in ReadFaults :
      /\ cm = "ready"
      /\ \E before \in {files[getCachePath(KeyOf(t))]} :
            /\ fault.kind = "read" => before.exists
            /\ \E r \in {load(files, t, fault)} :
                  /\ files' = r.files
                  /\ last' = Call("load", t, EmptyDoc, fault, r.threw, r.ret, before)
      /\ UNCHANGED <<dirExists, cm, writeCount, keyVars, extVars, genVars, txVars, wvVars>>

Save ==
    \E t \in StoreTriples, doc \in Docs :
      /\ cm = "ready"
      /\ writeCount < MaxWrites
      /\ \E fault \in WriteFaults(stringify(doc)) :
         \E before \in {files[getCachePath(KeyOf(t))]} :
         \E r \in {save(files, t, doc, fault)} :
            /\ files' = r.files
            /\ last' = Call("save", t, doc, fault, r.threw, r.ret, before)
      /\ writeCount' = writeCount + 1
      /\ UNCHANGED <<dirExists, cm, keyVars, extVars, genVars, txVars, wvVars>>

Exists ==
    \E t \in StoreTriples :
      /\ cm = "ready"
      /\ \E before \in {files[getCachePath(KeyOf(t))]} :
         \E r \in {exists(files, t)} :
            /\ files' = r.files
            /\ last' = Call("exists", t, EmptyDoc, NoFault, r.threw, r.ret, before)
      /\ UNCHANGED <<dirExists, cm, writeCount, keyVars, extVars, genVars, txVars, wvVars>>

InitKeyIdle ==
    /\ keyArgs = <<AnyTriple, AnyTriple>>
    /\ keyOut = <<Null, Null>>

InitCache ==
    /\ dirExists \in BOOLEAN
    /\ files = [p \in StorePaths |-> NoFile]
    /\ cm = "none"
    /\ last = NoCall
    /\ writeCount = 0
    /\ InitKeyIdle
    /\ InitExtIdle
    /\ InitGenerator
    /\ InitTextIdle
    /\ InitWebviewManager

NextCache == Construct \/ Load \/ Save \/ Exists

SpecCache == InitCache /\ [][NextCache]_vars

----------------------------------------------------------------------------
(* getCacheKey on its own: two calls, on any two triples *)

KeyResult(key) == [kind |-> "key", val |-> key, flag |-> FALSE]

CallGetCacheKey ==
    \E i \in 1..2 :
        /\ keyOut[i].kind = "null"
        /\ keyOut' = [keyOut EXCEPT ![i] = KeyResult(KeyOf(keyArgs[i]))]
        /\ UNCHANGED <<keyArgs, cacheVars, extVars, genVars, txVars, wvVars>>

InitKey ==
    /\ keyArgs \in Triples \X Triples
    /\ keyOut = <<Null, Null>>
    /\ dirExists = TRUE
    /\ files = [p \in StorePaths |-> NoFile]
    /\ cm = "none"
    /\ last = NoCall
    /\ writeCount = 0
    /\ InitExtIdle
    /\ InitGenerator
    /\ InitTextIdle
    /\ InitWebviewManager

NextKey == CallGetCacheKey

SpecKey == InitKey /\ [][NextKey]_vars

----------------------------------------------------------------------------
(* LiteratePanelManager.updateContent, one action per step between awaits  *)

\* the Documentation values the model answers with
GenDocs == {d \in Docs : d = EmptyDoc \/ d.sections[1].lines # <<>>}

\* updateContent returned without a Documentation: its locals are gone
returned(rec) ==
    [rec EXCEPT !.pc = "done", !.editor = NoEditor, !.skillLevel = "",
                !.apiKey = ""]

\* the levels the user picks in the quick pick
QuickPickChoices == {"beginner", "advanced"}

\* what client.chat.completions.parse can settle with
Responses ==
    {[kind |-> "parsed", doc |-> d] : d \in GenDocs}
    \cup {[kind |-> k, doc |-> EmptyDoc] :
             k \in {"noParse", "error", "nonError", "abort"}}

\* the mutant of afterSkillLevel without the check of the key
afterSkillLevelNoKeyCheck(rec) ==
    [rec EXCEPT !.pc = "inflight", !.invoked = TRUE]

\* after the skill level is known: prompt for the key when there is none,
\* else create the AbortController and start the model call in withProgress
afterSkillLevel(rec) ==
    IF rec.apiKey = ""
    THEN [rec EXCEPT !.pc = "inputBox"]
    ELSE [rec EXCEPT !.pc = "inflight", !.invoked = TRUE]

\* this._abortController = _abortController, when the model call starts
setAbortController(c, rec) ==
    IF rec.pc = "inflight" THEN c ELSE _abortController

\* the literate.generateDocs command: no active editor, or updateContent up
\* to its first await (secrets.get)
GenerateDocs(c) ==
    /\ cmd[c].pc = "idle"
    /\ c > 1 => cmd[c - 1].pc # "idle"
    /\ \E e \in Editors \cup {NoEditor} :
          IF e = NoEditor
          THEN /\ cmd' = [cmd EXCEPT ![c] =
                     [@ EXCEPT !.pc = "done", !.outcome = "noEditor",
                               !.msg = "info:No active editor found"]]
               /\ UNCHANGED _currentEditor
          ELSE /\ _currentEditor' = e
               /\ cmd' = [cmd EXCEPT ![c] =
                     [@ EXCEPT !.pc = "secretsGet", !.editor = e]]
    /\ UNCHANGED <<secrets, globalState, _panel, _documentation,
                   _selectionListener, _abortController, html, keyVars, cacheVars,
                   genVars, txVars, wvVars>>

\* secrets.get resolved; globalState.get; show the quick pick, the input box
\* or start the model call
SecretsGet(c) ==
    /\ cmd[c].pc = "secretsGet"
    /\ \E rec \in {[cmd[c] EXCEPT !.apiKey = secrets, !.skillLevel = globalState]} :
       \E next \in {IF rec.skillLevel = ""
                    THEN [rec EXCEPT !.pc = "quickPick"]
                    ELSE afterSkillLevel(rec)} :
          /\ cmd' = [cmd EXCEPT ![c] = next]
          /\ _abortController' = setAbortController(c, next)
    /\ UNCHANGED <<secrets, globalState, _panel, _documentation, _currentEditor,
                   _selectionListener, html, keyVars, cacheVars, genVars, txVars, wvVars>>

\* showQuickPick resolved: dismissed, or a level, stored with globalState.update
QuickPick(c) ==
    /\ cmd[c].pc = "quickPick"
    /\ \E selection \in QuickPickChoices \cup {""} :
          IF selection = ""
          THEN /\ cmd' = [cmd EXCEPT ![c] =
                     [returned(@) EXCEPT !.outcome = "noLevel",
                               !.msg = "info:Skill level selection is required"]]
               /\ UNCHANGED globalState
          ELSE /\ globalState' = selection
               /\ cmd' = [cmd EXCEPT ![c] =
                     [@ EXCEPT !.pc = "globalStateUpdate", !.skillLevel = selection]]
    /\ UNCHANGED <<secrets, _panel, _documentation, _currentEditor,
                   _selectionListener, _abortController, html, keyVars, cacheVars,
                   genVars, txVars, wvVars>>

\* globalState.update resolved
GlobalStateUpdate(c) ==
    /\ cmd[c].pc = "globalStateUpdate"
    /\ \E next \in {afterSkillLevel(cmd[c])} :
          /\ cmd' = [cmd EXCEPT ![c] = next]
          /\ _abortController' = setAbortController(c, next)
    /\ UNCHANGED <<secrets, globalState, _panel, _documentation, _currentEditor,
                   _selectionListener, html, keyVars, cacheVars, genVars, txVars, wvVars>>

\* showInputBox resolved: dismissed, or a key, stored with secrets.store
InputBox(c) ==
    /\ cmd[c].pc = "inputBox"
    /\ \E apiKey \in ApiKeys \cup {""} :
          IF apiKey = ""
          THEN /\ cmd' = [cmd EXCEPT ![c] =
                     [returned(@) EXCEPT !.outcome = "noKey",
                        !.msg = "info:API key is required to generate documentation"]]
               /\ UNCHANGED secrets
          ELSE /\ secrets' = apiKey
               /\ cmd' = [cmd EXCEPT ![c] =
                     [@ EXCEPT !.pc = "secretsStore", !.apiKey = apiKey]]
    /\ UNCHANGED <<globalState, _panel, _documentation, _currentEditor,
                   _selectionListener, _abortController, html, keyVars, cacheVars,
                   genVars, txVars, wvVars>>

\* secrets.store resolved: create the AbortController, start the model call
SecretsStore(c) ==
    /\ cmd[c].pc = "secretsStore"
    /\ cmd' = [cmd EXCEPT ![c] = [@ EXCEPT !.pc = "inflight", !.invoked = TRUE]]
    /\ _abortController' = c
    /\ UNCHANGED <<secrets, globalState, _panel, _documentation, _currentEditor,
                   _selectionListener, html, keyVars, cacheVars, genVars, txVars, wvVars>>

\* the user cancels the progress notification: _abortController.abort()
CancelRequested(c) ==
    /\ cmd[c].pc = "inflight"
    /\ ~cmd[c].aborted
    /\ cmd' = [cmd EXCEPT ![c] = [@ EXCEPT !.aborted = TRUE]]
    /\ UNCHANGED <<secrets, globalState, _panel, _documentation, _currentEditor,
                   _selectionListener, _abortController, html, keyVars, cacheVars,
                   genVars, txVars, wvVars>>

\* showPanel, the webview html and _setupSelectionListener
showPanelAndUpdate(c, doc) ==
    /\ _panel' = TRUE
    /\ html' = [shown |-> TRUE, doc |-> doc,
                fileName |-> EditorDocument(cmd[c].editor).fileName]
    /\ _selectionListener' = "active"

\* the outer catch: showErrorMessage for an Error instance, with its text
errorMessage(response) ==
    CASE response.kind = "nonError" -> "none"
      [] response.kind = "noParse" ->
            "error:Failed to generate literate documentation: Error: Failed to parse documentation from AI response"
      [] OTHER -> "error:Failed to generate literate documentation: APIError"

\* the mutant of parseResult without the check of a missing parsed value
parseResultNoCheck(response) ==
    IF response.kind \in {"parsed", "noParse"}
    THEN [threw |-> FALSE, doc |-> response.doc]
    ELSE [threw |-> TRUE, doc |-> EmptyDoc]

\* the try block after the model call: response.choices[0].message.parsed,
\* and throw new Error(...) when there is none
parseResult(response) ==
    IF response.kind = "parsed"
    THEN [threw |-> FALSE, doc |-> response.doc]
    ELSE [threw |-> TRUE, doc |-> EmptyDoc]

\* the model call settled with response: the rest of updateContent
ParseSettledWith(c, response) ==
    /\ cmd[c].pc = "inflight"
    /\ response.kind = "abort" => cmd[c].aborted
    /\ _abortController' = 0
    /\ \E r \in {parseResult(response)} :
          IF ~r.threw
          THEN \* this._documentation = documentation; the panel is shown
               /\ _documentation' = r.doc
               /\ showPanelAndUpdate(c, r.doc)
               /\ cmd' = [cmd EXCEPT ![c] =
                     [@ EXCEPT !.pc = "done", !.apiKey = "", !.outcome = "completed",
                               !.doc = r.doc]]
          ELSE IF response.kind = "abort" \/ cmd[c].aborted
          THEN \* inner catch: notice, return; the panel is shown all the same
               /\ showPanelAndUpdate(c, _documentation)
               /\ cmd' = [cmd EXCEPT ![c] =
                     [returned(@) EXCEPT !.outcome = "cancelled",
                        !.msg = "info:Documentation generation was cancelled"]]
               /\ UNCHANGED _documentation
          ELSE \* rethrown to the outer catch, which reports Error instances
               /\ cmd' = [cmd EXCEPT ![c] =
                     [returned(@) EXCEPT !.outcome = "failed",
                        !.msg = errorMessage(response)]]
               /\ UNCHANGED <<_panel, _documentation, html, _selectionListener>>
    /\ UNCHANGED <<secrets, globalState, _currentEditor, keyVars, cacheVars, genVars, txVars, wvVars>>

\* the model call settled: the rest of updateContent
ParseSettled(c) == \E response \in Responses : ParseSettledWith(c, response)

\* the literate.resetApiKey command: secrets.delete, then the notice
ResetApiKey ==
    /\ secrets' = ""
    /\ UNCHANGED <<globalState, _panel, _documentation, _currentEditor,
                   _selectionListener, _abortController, html, cmd, keyVars,
                   cacheVars, genVars, txVars, wvVars>>

AllPaths == {getCachePath(KeyOf(t)) : t \in Triples}

InitExt ==
    /\ InitExtIdle
    /\ InitGenerator
    /\ InitTextIdle
    /\ InitWebviewManager
    /\ InitKeyIdle
    /\ dirExists = TRUE
    /\ files = [p \in AllPaths |-> NoFile]
    /\ cm = "none"
    /\ last = NoCall
    /\ writeCount = 0

NextExt ==
    \E c \in Cmds :
        \/ GenerateDocs(c)
        \/ SecretsGet(c)
        \/ QuickPick(c)
        \/ GlobalStateUpdate(c)
        \/ InputBox(c)
        \/ SecretsStore(c)
        \/ CancelRequested(c)
        \/ ParseSettled(c)

SpecExt == InitExt /\ [][NextExt]_vars

\* the generate command together with the literate.resetApiKey command
NextReset == NextExt \/ ResetApiKey

SpecReset == InitExt /\ [][NextReset]_vars

----------------------------------------------------------------------------
(* DocumentationGenerator.generate, cancel                                  *)

getAnalyzerPromptBeginnerDefault(skillLevel) ==
    IF skillLevel = "advanced" THEN "codeAnalyzerAdvanced"
    ELSE "codeAnalyzerBeginner"

\* DocumentationGenerator.getAnalyzerPrompt: the switch with its default
getAnalyzerPrompt(skillLevel) ==
    CASE skillLevel = "beginner" -> "codeAnalyzerBeginner"
      [] skillLevel = "advanced" -> "codeAnalyzerAdvanced"
      [] OTHER -> "codeAnalyzerIntermediate"

\* the conditional expression of updateContent that picks analyzerPrompt
analyzerPrompt(skillLevel) ==
    IF skillLevel = "beginner" THEN "codeAnalyzerBeginner"
    ELSE IF skillLevel = "advanced" THEN "codeAnalyzerAdvanced"
    ELSE "codeAnalyzerIntermediate"

\* this.abortController?.abort(): aborts the controller the field holds now
abortField(ss) ==
    [t \in Sessions |-> [ss[t] EXCEPT !.aborted = @ \/ t = abortController]]

\* this.abortController?.signal.aborted
fieldAborted == abortController # 0 /\ sess[abortController].aborted

\* generate up to the call of client.chat.completions.parse: the prompt, a
\* new AbortController in the field, the progress task started
Generate(s) ==
    /\ sess[s].pc = "idle"
    /\ s > 1 => sess[s - 1].pc # "idle"
    /\ \E skillLevel \in LevelInputs :
          sess' = [sess EXCEPT ![s] =
                     [@ EXCEPT !.pc = "inflight", !.skillLevel = skillLevel,
                               !.prompt = getAnalyzerPrompt(skillLevel),
                               !.calls = @ + 1]]
    /\ abortController' = s
    /\ UNCHANGED <<keyVars, cacheVars, extVars, txVars,
                   wvVars>>

\* the progress token of call s fires: this.abortController?.abort()
OnCancellationRequested(s) ==
    /\ sess[s].pc = "inflight"
    /\ ~sess[s].cancelRequested
    /\ sess' = [abortField(sess) EXCEPT ![s].cancelRequested = TRUE]
    /\ UNCHANGED <<abortController, keyVars, cacheVars, extVars, txVars,
                   wvVars>>

\* DocumentationGenerator.cancel()
cancel ==
    /\ sess' = abortField(sess)
    /\ UNCHANGED <<abortController, keyVars, cacheVars, extVars, txVars,
                   wvVars>>

\* what the model call of generate settles with; the errors of the client
\* are Error instances
GenResponses ==
    {r \in Responses : r.kind # "nonError" /\ (r.kind = "parsed" => r.doc # EmptyDoc)}

\* the error generate rethrows
thrownError(response) ==
    CASE response.kind = "abort" -> "AbortError"
      [] response.kind = "noParse"
            -> "Error: Failed to parse documentation from AI response"
      [] OTHER -> "APIError"

\* the call is over: its argument and its local analyzerPrompt are gone
returnFrom(rec) ==
    [rec EXCEPT !.pc = "done", !.skillLevel = IdleSession.skillLevel,
                !.prompt = IdleSession.prompt]

\* the mutant of SettleGenerate that calls the model again after an error
SettleGenerateRetry(s) ==
    /\ sess[s].pc = "inflight"
    /\ \E response \in GenResponses :
          /\ response.kind = "abort" => sess[s].aborted
          /\ sess' = [sess EXCEPT ![s] =
                IF response.kind = "parsed"
                THEN [returnFrom(@) EXCEPT !.returned = Value(response.doc)]
                ELSE IF sess[s].calls < 2
                THEN [@ EXCEPT !.calls = @ + 1]
                ELSE [returnFrom(@) EXCEPT
                        !.thrown = thrownError(response),
                        !.notice = response.kind = "abort" \/ fieldAborted]]
    /\ abortController' = 0
    /\ UNCHANGED <<keyVars, cacheVars, extVars, txVars,
                   wvVars>>

\* the model call of s settled: return, or catch and rethrow; finally
SettleGenerate(s) ==
    /\ sess[s].pc = "inflight"
    /\ \E response \in GenResponses :
          /\ response.kind = "abort" => sess[s].aborted
          /\ sess' = [sess EXCEPT ![s] =
                IF response.kind = "parsed"
                THEN [returnFrom(@) EXCEPT !.returned = Value(response.doc)]
                ELSE [returnFrom(@) EXCEPT
                        !.thrown = thrownError(response),
                        !.notice = response.kind = "abort" \/ fieldAborted]]
    /\ abortController' = 0
    /\ UNCHANGED <<keyVars, cacheVars, extVars, txVars,
                   wvVars>>

InitGen ==
    /\ InitGenerator
    /\ InitTextIdle
    /\ InitWebviewManager
    /\ InitExtIdle
    /\ InitKeyIdle
    /\ dirExists = TRUE
    /\ files = [p \in AllPaths |-> NoFile]
    /\ cm = "none"
    /\ last = NoCall
    /\ writeCount = 0

NextGen ==
    \/ \E s \in Sessions :
          \/ Generate(s)
          \/ OnCancellationRequested(s)
          \/ SettleGenerate(s)
    \/ cancel

SpecGen == InitGen /\ [][NextGen]_vars

----------------------------------------------------------------------------
(* The user message: text.split("\n").map(...).join("\n")                   *)

Newline == 10

\* the document texts tried: letters a and line breaks
Texts == UNION {[1..n -> {97, Newline}] : n \in 0..MaxTextLen}

RECURSIVE split(_, _)
\* String.prototype.split with a one-character separator
split(s, sep) ==
    IF s = <<>> THEN << <<>> >>
    ELSE LET rest == split(Tail(s), sep)
         IN IF Head(s) = sep THEN << <<>> >> \o rest
            ELSE << <<Head(s)>> \o Head(rest) >> \o Tail(rest)

RECURSIVE decimal(_)
\* the decimal digits of a number, as a template literal prints it
decimal(n) ==
    IF n < 10 THEN <<48 + n>> ELSE decimal(n \div 10) \o <<48 + (n % 10)>>

\* the mutant of numbered that numbers the lines from 0
numberedFromZero(lines) ==
    [i \in 1..Len(lines) |-> decimal(i - 1) \o <<58, 32>> \o lines[i]]

\* .map((line, idx) => `${idx + 1}: ${line}`); idx is i - 1
numbered(lines) ==
    [i \in 1..Len(lines) |-> decimal((i - 1) + 1) \o <<58, 32>> \o lines[i]]

RECURSIVE join(_, _)
\* Array.prototype.join
join(lines, sep) ==
    IF lines = <<>> THEN <<>>
    ELSE IF Len(lines) = 1 THEN lines[1]
    ELSE lines[1] \o <<sep>> \o join(Tail(lines), sep)

\* the content of the user message sent to the model
userContent(t) == join(numbered(split(t, Newline)), Newline)

\* the message is built for the text of the document
BuildUserMessage ==
    /\ userMessage = NoText
    /\ userMessage' = [kind |-> "text", val |-> userContent(sourceText)]
    /\ UNCHANGED <<sourceText, keyVars, cacheVars, extVars, genVars, wvVars>>

InitText ==
    /\ sourceText \in Texts
    /\ userMessage = NoText
    /\ InitGenerator
    /\ InitWebviewManager
    /\ InitExtIdle
    /\ InitKeyIdle
    /\ dirExists = TRUE
    /\ files = [p \in AllPaths |-> NoFile]
    /\ cm = "none"
    /\ last = NoCall
    /\ writeCount = 0

NextText == BuildUserMessage

SpecText == InitText /\ [][NextText]_vars

----------------------------------------------------------------------------
(* The webview page (html-generator.ts): data-lines and the page script     *)

Comma == 44
Dash == 45

\* section.lines.map((r) => `${r.start}-${r.end}`).join(",")
dataLines(section) ==
    join([i \in 1..Len(section.lines) |->
             decimal(section.lines[i].start) \o <<Dash>>
                 \o decimal(section.lines[i].end)], Comma)

IsDigit(ch) == ch \in 48..57

RECURSIVE digitsValue(_, _)
\* the value of the leading digits of str, after acc
digitsValue(str, acc) ==
    IF str = <<>> \/ ~IsDigit(Head(str)) THEN acc
    ELSE digitsValue(Tail(str), 10 * acc + (Head(str) - 48))

\* parseInt of a string without sign or blanks: NaN without a leading digit
parseInt(str) ==
    IF str = <<>> \/ ~IsDigit(Head(str)) THEN NaN
    ELSE Num(digitsValue(str, 0))

\* end || start: NaN and 0 are falsy, and so is a missing end
orElse(a, b) == IF a.nan \/ a.n = 0 THEN b ELSE a

\* one part of the data-lines attribute: { start, end: end || start }
parsePart(part) ==
    LET nums == [i \in 1..Len(split(part, Dash)) |-> parseInt(split(part, Dash)[i])]
        start == nums[1]
    IN [start |-> start,
        end |-> IF Len(nums) >= 2 THEN orElse(nums[2], start) ELSE start]

\* parseLineRanges of the page script
parseLineRanges(rangeStr) ==
    [i \in 1..Len(split(rangeStr, Comma)) |->
        parsePart(split(rangeStr, Comma)[i])]

\* isLineInRanges: a comparison with NaN is false
isLineInRanges(line, ranges) ==
    \E i \in 1..Len(ranges) :
        /\ ~ranges[i].start.nan /\ ~ranges[i].end.nan
        /\ line >= ranges[i].start.n /\ line <= ranges[i].end.n

\* the click handler of a prose block: the message it posts, if any
clickMessage(section) ==
    LET ranges == parseLineRanges(dataLines(section))
    IN IF Len(ranges) > 0
       THEN [command |-> "highlightLines", startLine |-> ranges[1].start,
             endLine |-> ranges[Len(ranges)].end]
       ELSE NoMessage

\* the blocks the page highlights on highlightProse
highlightProse(doc, line) ==
    {i \in 1..Len(doc.sections) :
        isLineInRanges(line, parseLineRanges(dataLines(doc.sections[i])))}

----------------------------------------------------------------------------
(* WebviewManager (unnamed/part_000)                                        *)

\* the documentations shown: none, and one with a section without lines
\* followed by a section with two ranges
WvDocs ==
    { EmptyDoc,
      Documentation(<<Section(<<>>, "intro"),
                      Section(<<Range(1, 1), Range(2, MaxLine)>>, "body")>>) }

\* the editors' documents have the lines the documentations speak of
LineCount == MaxLine

\* createPanel: the message handler closes over this call's currentEditor
createPanel(w, currentEditor) ==
    [w EXCEPT !.panel = TRUE, !.livePanels = @ + 1,
              !.handlerEditor = currentEditor]

\* updateContent: the page is replaced
renderContent(w, fileName, documentation) ==
    IF ~w.panel THEN w
    ELSE [w EXCEPT !.html = [shown |-> TRUE, doc |-> documentation,
                             fileName |-> fileName],
                   !.highlighted = {}]

\* this.selectionListener.dispose(), which may be repeated
disposeListener(w) ==
    IF w.selectionListener = "live"
    THEN [w EXCEPT !.selectionListener = "disposed", !.liveListeners = @ - 1]
    ELSE w

\* the mutant of setupSelectionListener that keeps the old listener alive
setupSelectionListenerNoDispose(w, currentEditor) ==
    [w EXCEPT !.selectionListener = "live", !.liveListeners = @ + 1,
              !.listenerEditor = currentEditor]

\* setupSelectionListener: the old listener is disposed, a new one registered
setupSelectionListener(w, currentEditor) ==
    [(IF w.selectionListener # "none" THEN disposeListener(w) ELSE w)
        EXCEPT !.selectionListener = "live", !.liveListeners = @ + 1,
               !.listenerEditor = currentEditor]

\* the onDidDispose callback; the page and its messages go with the panel
onDidDispose(w) ==
    LET gone == [w EXCEPT !.panel = FALSE, !.livePanels = @ - 1,
                          !.html = NoHtml, !.highlighted = {},
                          !.toExtension = NoMessage]
    IN IF gone.selectionListener # "none" THEN disposeListener(gone) ELSE gone

\* what a step leaves in the record of the last operation
did(w, op, arg, posted, threw) ==
    [w EXCEPT !.op = op, !.arg = arg, !.posted = posted, !.threw = threw]

FileNameOf(e) == IF e = NoEditor THEN <<>> ELSE EditorDocument(e).fileName

\* show(context, fileName, documentation, currentEditor)
Show(documentation, currentEditor) ==
    /\ \E r \in {IF wv.panel THEN wv ELSE createPanel(wv, currentEditor)} :
          wv' = [did(IF r.panel
                     THEN setupSelectionListener(
                              renderContent(r, FileNameOf(currentEditor),
                                            documentation), currentEditor)
                     ELSE r, "show", 0, FALSE, FALSE)
                   EXCEPT !.shownEditor = currentEditor]
    /\ UNCHANGED <<keyVars, cacheVars, extVars, genVars, txVars>>

\* the user closes the panel: the onDidDispose callback runs
PanelDispose ==
    /\ wv.panel
    /\ wv' = did(onDidDispose(wv), "panelDispose", 0, FALSE, FALSE)
    /\ UNCHANGED <<keyVars, cacheVars, extVars, genVars, txVars>>

\* dispose(): panel.dispose() runs the onDidDispose callback
Dispose ==
    /\ \E r \in {IF wv.panel THEN onDidDispose(wv) ELSE wv} :
          wv' = did(IF r.selectionListener # "none" THEN disposeListener(r)
                    ELSE r, "dispose", 0, FALSE, FALSE)
    /\ UNCHANGED <<keyVars, cacheVars, extVars, genVars, txVars>>

\* the user clicks prose block i of the page
Click(i) ==
    /\ wv.html.shown
    /\ i \in 1..Len(wv.html.doc.sections)
    /\ wv.toExtension = NoMessage
    /\ \E m \in {clickMessage(wv.html.doc.sections[i])} :
          wv' = did([wv EXCEPT !.toExtension = m], "click", i,
                    m # NoMessage, FALSE)
    /\ UNCHANGED <<keyVars, cacheVars, extVars, genVars, txVars>>

\* new Position(startLine - 1, 0) and lineAt(endLine - 1) accept the lines
\* of the document only
validLines(m) ==
    /\ ~m.startLine.nan /\ m.startLine.n >= 1
    /\ ~m.endLine.nan /\ m.endLine.n \in 1..LineCount

\* the onDidReceiveMessage handler of the panel takes the waiting message
ReceiveMessage ==
    /\ wv.toExtension # NoMessage
    /\ \E m \in {wv.toExtension} :
          wv' = did(IF m.command = "highlightLines" /\ wv.handlerEditor # NoEditor
                       /\ validLines(m)
                    THEN [wv EXCEPT !.toExtension = NoMessage,
                             !.selection[wv.handlerEditor] =
                                 [set |-> TRUE, startLine |-> m.startLine.n,
                                  endLine |-> m.endLine.n]]
                    ELSE [wv EXCEPT !.toExtension = NoMessage],
                    "receive", 0, FALSE,
                    m.command = "highlightLines" /\ wv.handlerEditor # NoEditor
                        /\ ~validLines(m))
    /\ UNCHANGED <<keyVars, cacheVars, extVars, genVars, txVars>>

\* the user moves the cursor of editor e to a line: the live listener posts
\* highlightProse for its own editor while there is a panel
SelectionChange(e, line) ==
    /\ \E p \in {wv.selectionListener = "live" /\ e = wv.listenerEditor
                    /\ wv.panel} :
          wv' = did([wv EXCEPT !.selection[e] =
                                   [set |-> TRUE, startLine |-> line,
                                    endLine |-> line],
                               !.highlighted =
                                   IF p THEN highlightProse(wv.html.doc, line)
                                   ELSE @],
                    "selectionChange", line, p, FALSE)
    /\ UNCHANGED <<keyVars, cacheVars, extVars, genVars, txVars>>

InitWv ==
    /\ InitWebviewManager
    /\ InitGenerator
    /\ InitTextIdle
    /\ InitExtIdle
    /\ InitKeyIdle
    /\ dirExists = TRUE
    /\ files = [p \in AllPaths |-> NoFile]
    /\ cm = "none"
    /\ last = NoCall
    /\ writeCount = 0

NextWv ==
    \/ \E documentation \in WvDocs, currentEditor \in Editors \cup {NoEditor} :
          Show(documentation, currentEditor)
    \/ PanelDispose
    \/ Dispose
    \/ \E i \in 1..MaxLine : Click(i)
    \/ ReceiveMessage
    \/ \E e \in Editors, line \in 1..LineCount : SelectionChange(e, line)

SpecWv == InitWv /\ [][NextWv]_vars

----------------------------------------------------------------------------
(* Claims about getCacheKey (SpecKey) *)

BothKeys == keyOut[1].kind = "key" /\ keyOut[2].kind = "key"

\* the number of fields in which two triples differ
FieldsChanged(a, b) ==
    Cardinality({f \in {"filePath", "content", "skillLevel"} : a[f] # b[f]})

C2_FieldsSeparated ==
    (BothKeys /\ keyArgs[1] # keyArgs[2]) => keyOut[1].val # keyOut[2].val

----------------------------------------------------------------------------
(* Claims about CacheManager (SpecCache) *)

PathOf(t) == getCachePath(KeyOf(t))
SaveOk(c) == c.op = "save" /\ c.fault.kind = "none"
SaveFailed(c) == c.op = "save" /\ c.fault.kind # "none"

\* C3: a load that directly follows a successful save of doc, with the same
\* three arguments and no read error, returns a value equal to doc.
C3_RoundTrip ==
    [][(/\ SaveOk(last)
        /\ last'.op = "load"
        /\ last'.triple = last.triple
        /\ last'.fault = NoFault) => last'.ret = Value(last.doc)]_vars

\* a load returned a Documentation whose first section has no line ranges
C3_Witness ==
    /\ last.op = "load"
    /\ last.ret.kind = "value"
    /\ last.ret.val \in Docs
    /\ last.ret.val.sections # <<>>
    /\ last.ret.val.sections[1].lines = <<>>

\* C4: load never throws and never changes the files; when the entry file is
\* missing, cannot be read or cannot be parsed, it returns null.
C4_LoadFailsSoft ==
    [][last'.op = "load" =>
          /\ ~last'.threw
          /\ files' = files
          /\ (\/ ~last'.before.exists
              \/ last'.fault.kind = "read"
              \/ JSONparse(last'.before.data).threw) => last'.ret = Null]_vars

\* a load of an entry file that holds a truncated text returned null
C4_Witness ==
    /\ last.op = "load"
    /\ last.fault = NoFault
    /\ last.before.exists
    /\ JSONparse(last.before.data).threw
    /\ last.ret = Null
    /\ ~last.threw

\* what a load of the last call's triple returns now, and what it would have
\* returned before the last call
LoadNow == load(files, last.triple, NoFault).ret
LoadBefore ==
    load([files EXCEPT ![PathOf(last.triple)] = last.before],
         last.triple, NoFault).ret

\* C5: a save whose write failed returns normally, and a load of the same key
\* afterwards returns null or the complete Documentation that was stored
\* under the key before.
C5_SaveFailsSoft ==
    SaveFailed(last) =>
        /\ ~last.threw
        /\ last.ret = Void
        /\ \/ LoadNow = Null
           \/ /\ LoadNow.kind = "value"
              /\ LoadNow = LoadBefore
              /\ files[PathOf(last.triple)].data = stringify(LoadNow.val)

\* a save failed while writing over a readable entry
C5_Witness ==
    /\ SaveFailed(last)
    /\ last.fault.kind = "partial"
    /\ LoadBefore.kind = "value"
    /\ LoadNow = Null
    /\ ~last.threw

\* C6: no operation of CacheManager, construction included, throws.
C6_NoCacheErrorEscapes == ~last.threw

\* C7 as stated: once load finds an entry under a key, no later operation
\* changes the file stored under that key.
C7_EntriesImmutable ==
    [][\A t \in StoreTriples :
          load(files, t, NoFault).ret.kind = "value"
              => files'[PathOf(t)] = files[PathOf(t)]]_vars

\* C7 amended: load, exists and construction change no file; a save changes
\* no file but the one of its own key, and when its write succeeds that file
\* holds the serialization of the Documentation just saved.
C7_OnlySaveWritesItsOwnEntry ==
    [][/\ last'.op \in {"constructor", "load", "exists"} => files' = files
       /\ last'.op = "save" =>
            /\ \A p \in StorePaths \ {PathOf(last'.triple)} : files'[p] = files[p]
            /\ last'.fault.kind = "none"
                  => files'[PathOf(last'.triple)] = File(stringify(last'.doc))]_vars

\* a successful save replaced a readable entry by a different text
C7_Witness ==
    /\ SaveOk(last)
    /\ LoadBefore.kind = "value"
    /\ LoadBefore.val # last.doc
    /\ LoadNow = Value(last.doc)

----------------------------------------------------------------------------
(* Claims about the runs of literate.generateDocs (SpecExt) *)

\* the (filePath, content, skillLevel) a run asks documentation for
RequestTriple(rec) ==
    [filePath |-> EditorDocument(rec.editor).fileName,
     content |-> EditorDocument(rec.editor).text,
     skillLevel |-> rec.skillLevel]

\* this step ends run c with the model's Documentation
Completes(c) == cmd[c].outcome # "completed" /\ cmd'[c].outcome = "completed"

\* this step starts the model call of run c
StartsSession(c) == ~cmd[c].invoked /\ cmd'[c].invoked

CompletedRuns == {c \in Cmds : cmd[c].outcome = "completed"}

\* C8: a run whose model call succeeds leaves an entry for its fingerprint in
\* the store, and a run with the same file, text and level as a run that has
\* already completed is a cache hit: it starts no model call of its own.
C8_MissThenHit ==
    [][\A d \in Cmds :
          /\ Completes(d) => files'[PathOf(RequestTriple(cmd'[d]))].exists
          /\ StartsSession(d) =>
                ~\E c \in CompletedRuns \ {d} :
                    RequestTriple(cmd[c]) = RequestTriple(cmd'[d])]_vars

\* C9: a run that regenerates (every run of the command does: it starts a
\* model call whatever the store holds) ends, on success, with the store
\* holding the new Documentation under its fingerprint.
C9_RefreshWritesEntry ==
    [][\A c \in Cmds :
          Completes(c) =>
              /\ cmd'[c].invoked
              /\ files'[PathOf(RequestTriple(cmd'[c]))]
                     = File(stringify(cmd'[c].doc))]_vars

\* C10: the number of store writes equals the number of runs that completed.
C10_WritesEqualCompleted ==
    writeCount = Cardinality(CompletedRuns)

----------------------------------------------------------------------------
(* Claims about cancellation and concurrent runs (SpecExt) *)

CancelNotice == "info:Documentation generation was cancelled"

\* this step ends run c
Settles(c) == cmd[c].pc = "inflight" /\ cmd'[c].pc = "done"

Outstanding == {c \in Cmds : cmd[c].pc = "inflight"}

\* C11: a run whose cancellation was requested before its model call
\* settled ends Cancelled, with the cancellation notice and no error
\* message, and the store is not written.
C11_CancelledRunEndsCancelled ==
    \A c \in Cmds :
        (cmd[c].pc = "done" /\ cmd[c].aborted) =>
            /\ cmd[c].outcome = "cancelled"
            /\ cmd[c].msg = CancelNotice
            /\ writeCount = 0

\* C12: when the model call of a run settles after its abort was signalled,
\* the run ends Cancelled whatever the call returned, and the returned
\* Documentation is neither kept, displayed nor stored.
C12_CancelWinsOverLateData ==
    [][\A c \in Cmds :
          (Settles(c) /\ cmd[c].aborted) =>
              /\ cmd'[c].outcome = "cancelled"
              /\ _documentation' = _documentation
              /\ html'.doc = html.doc
              /\ files' = files]_vars

\* C13: when a run starts its model call while the call of another run is
\* in flight, that other call has been cancelled.
C13_LastRequestWins ==
    [][\A d \in Cmds :
          StartsSession(d) =>
              \A c \in Outstanding \ {d} : cmd'[c].aborted]_vars

\* C14: at most one model call is outstanding at a time.
C14_AtMostOneSession == Cardinality(Outstanding) <= 1

----------------------------------------------------------------------------
(* Claims about the outcome of a run (SpecExt) *)

NoParsed == [kind |-> "noParse", doc |-> EmptyDoc]

Dismissed(c) ==
    cmd[c].pc # "done" /\ cmd'[c].outcome \in {"noLevel", "noKey"}

\* C19: the model call starts only with a skill level and a non-empty API
\* key; a dismissed quick pick or input box ends the run with no model call,
\* no change to the Documentation or to what is displayed, and no key stored.
C19_PreconditionsBeforeGeneration ==
    [][\A c \in Cmds :
          /\ StartsSession(c) =>
                cmd'[c].skillLevel \in SkillLevels /\ cmd'[c].apiKey # ""
          /\ Dismissed(c) =>
                /\ ~cmd'[c].invoked
                /\ _documentation' = _documentation
                /\ html' = html /\ _panel' = _panel
                /\ secrets' = secrets]_vars

\* the input box of one run was dismissed and another run called the model
C19_Witness ==
    \E c, d \in Cmds :
        /\ cmd[c].outcome = "noKey" /\ ~cmd[c].invoked
        /\ cmd[d].invoked

----------------------------------------------------------------------------
(* Claims about DocumentationGenerator (SpecGen) *)

\* C15: the cancellation of one call (its progress token fires) never aborts
\* the AbortController of another call of the same DocumentationGenerator.
C15_CancelScopedPerSession ==
    [][\A a \in Sessions :
          (~sess[a].cancelRequested /\ sess'[a].cancelRequested) =>
              \A b \in Sessions \ {a} : sess'[b].aborted = sess[b].aborted]_vars

\* the prompt the claim names for each value of the skill level
ExpectedPrompt ==
    [beginner |-> "codeAnalyzerBeginner",
     advanced |-> "codeAnalyzerAdvanced",
     intermediate |-> "codeAnalyzerIntermediate",
     undefined |-> "codeAnalyzerIntermediate",
     expert |-> "codeAnalyzerIntermediate"]

\* C17: beginner selects the beginner prompt, advanced the advanced prompt,
\* and every other value (intermediate, undefined, unrecognised) the
\* intermediate prompt, in getAnalyzerPrompt and in updateContent alike.
C17_PromptSelectionTotal ==
    \A s \in Sessions :
        sess[s].pc = "inflight" =>
            /\ sess[s].prompt = ExpectedPrompt[sess[s].skillLevel]
            /\ analyzerPrompt(sess[s].skillLevel) = ExpectedPrompt[sess[s].skillLevel]

\* a call with an unrecognised level runs with the intermediate prompt
C17_Witness ==
    \E s \in Sessions :
        /\ sess[s].pc = "inflight"
        /\ sess[s].skillLevel = "expert"
        /\ sess[s].prompt = "codeAnalyzerIntermediate"

\* how a call of generate ended, as its caller sees it
Completed(s) ==
    sess[s].returned # Null /\ sess[s].thrown = "none" /\ ~sess[s].notice
Failed(s) ==
    sess[s].returned = Null /\ sess[s].thrown # "none" /\ ~sess[s].notice
Cancelled(s) ==
    sess[s].returned = Null /\ sess[s].thrown # "none" /\ sess[s].notice

\* C18: a call of generate makes exactly one model call, and once over it is
\* in exactly one of Completed, Failed and Cancelled; a failure or a
\* cancellation is followed by no further model call.
C18_OneInvocationOneOutcome ==
    \A s \in Sessions :
        /\ sess[s].pc = "idle" => sess[s].calls = 0
        /\ sess[s].pc = "inflight" =>
              /\ sess[s].calls = 1
              /\ ~Completed(s) /\ ~Failed(s) /\ ~Cancelled(s)
        /\ sess[s].pc = "done" =>
              /\ sess[s].calls = 1
              /\ Cardinality({o \in {"Completed", "Failed", "Cancelled"} :
                    \/ o = "Completed" /\ Completed(s)
                    \/ o = "Failed" /\ Failed(s)
                    \/ o = "Cancelled" /\ Cancelled(s)}) = 1

\* one call failed and another was cancelled, each after one model call
C18_Witness ==
    \E s, t \in Sessions :
        /\ sess[s].pc = "done" /\ Failed(s) /\ sess[s].calls = 1
        /\ sess[t].pc = "done" /\ Cancelled(t) /\ sess[t].calls = 1

----------------------------------------------------------------------------
(* Claims about the API key (SpecReset) *)

\* this step shows the input box of run c
Prompts(c) == cmd[c].pc # "inputBox" /\ cmd'[c].pc = "inputBox"

\* C20: a run that finds no key stored prompts for one before it calls the
\* model, and stores the key entered; while a key is stored no run prompts
\* for it; after literate.resetApiKey the store is empty, so the next run
\* prompts again.
C20_ApiKeyLifecycle ==
    [][/\ \A c \in Cmds :
            /\ Prompts(c) => secrets = ""
            /\ (cmd[c].pc = "secretsGet" /\ cmd'[c].pc # "secretsGet"
                   /\ secrets = "") => ~cmd'[c].invoked
            /\ (cmd[c].pc = "inputBox" /\ cmd'[c].pc = "secretsStore") =>
                   secrets' = cmd'[c].apiKey /\ secrets' \in ApiKeys
            /\ StartsSession(c) => cmd'[c].apiKey \in ApiKeys
       /\ (cmd' = cmd /\ secrets' # secrets) => secrets' = ""]_vars

----------------------------------------------------------------------------
(* More claims about DocumentationGenerator (SpecGen) *)

\* C22: when the progress token of a call in flight fires, the abort signal
\* of that call's own model call is set: the field holds its controller.
C22_CancelReachesOwnCall ==
    [][\A s \in Sessions :
          (~sess[s].cancelRequested /\ sess'[s].cancelRequested) =>
              sess'[s].aborted]_vars

----------------------------------------------------------------------------
(* More claims about the runs of literate.generateDocs (SpecExt) *)

\* C23: the step that ends a run as cancelled leaves the webview content,
\* the panel, the held Documentation, the editor binding and the selection
\* listener as they were.
C23_CancelLeavesStateUntouched ==
    [][\A c \in Cmds :
          (Settles(c) /\ cmd'[c].outcome = "cancelled") =>
              /\ html' = html
              /\ _panel' = _panel
              /\ _documentation' = _documentation
              /\ _currentEditor' = _currentEditor
              /\ _selectionListener' = _selectionListener]_vars

\* C24: every run that failed has shown an error message.
C24_FailuresReported ==
    \A c \in Cmds : cmd[c].outcome = "failed" => cmd[c].msg # "none"

\* C27: while the panel shows documentation, the file named in its title and
\* the Documentation rendered are those of the editor that clicks and the
\* selection listener act on.
C27_PanelBoundToItsDocument ==
    html.shown =>
        /\ _currentEditor # NoEditor
        /\ html.fileName = EditorDocument(_currentEditor).fileName
        /\ html.doc = _documentation

----------------------------------------------------------------------------
(* More claims about CacheManager (SpecCache) *)

\* C28: for every triple, exists returns true exactly when load returns a
\* Documentation, and a call of exists changes no file.
C28_ExistsAgreesWithLoad ==
    [][/\ \A t \in StoreTriples :
            exists(files', t).ret.flag
                <=> (load(files', t, NoFault).ret.kind = "value")
       /\ last'.op = "exists" => files' = files]_vars

----------------------------------------------------------------------------
(* Claims about the user message (SpecText) *)

\* the positions of the line breaks of a text
Breaks(t) == {i \in 1..Len(t) : t[i] = Newline}

\* C25: the text sent to the model has as many lines as the document text
\* split on the line break, and its k-th line is the decimal k, a colon and
\* a space, followed by the k-th line of the document, unchanged.
C25_LineNumberedTranscript ==
    userMessage.kind = "text" =>
        LET src == split(sourceText, Newline)
            out == split(userMessage.val, Newline)
        IN /\ Len(src) = Cardinality(Breaks(sourceText)) + 1
           /\ Len(out) = Len(src)
           /\ \A k \in 1..Len(src) : out[k] = decimal(k) \o <<58, 32>> \o src[k]

\* a message was built for a text of ten lines, the last numbered "10"
C25_Witness ==
    /\ userMessage.kind = "text"
    /\ Cardinality(Breaks(sourceText)) = 9
    /\ split(userMessage.val, Newline)[10] = <<49, 48, 58, 32>>

----------------------------------------------------------------------------
(* Claims about WebviewManager and the page script (SpecWv) *)

\* C21: when the panel's handler takes a highlightLines message naming lines
\* of the document, the selection is set in the editor passed to the most
\* recent show call, also when an earlier show call created the panel.
C21_HighlightInShownEditor ==
    [][(/\ ReceiveMessage
        /\ wv.toExtension.command = "highlightLines"
        /\ validLines(wv.toExtension)
        /\ wv.shownEditor # NoEditor)
       => wv'.selection[wv.shownEditor] =
              [set |-> TRUE, startLine |-> wv.toExtension.startLine.n,
               endLine |-> wv.toExtension.endLine.n]]_vars

\* the sections of the page shown that have no lines
WithoutLines == {i \in 1..Len(wv.html.doc.sections) :
                    wv.html.doc.sections[i].lines = <<>>}

\* C26: a click on a prose block whose section has no lines posts no
\* message, the message handler never throws, and highlightProse never
\* highlights such a block.
C26_SectionsWithoutLinesTolerated ==
    /\ (wv.op = "click" /\ wv.arg \in WithoutLines) =>
           ~wv.posted /\ wv.toExtension = NoMessage
    /\ wv.op = "receive" => ~wv.threw
    /\ wv.highlighted \cap WithoutLines = {}

\* C29: there is at most one panel and at most one undisposed selection
\* listener; the manager holds a panel exactly when one exists; without a
\* panel the listener is not live and a selection change posts nothing.
C29_SinglePanelSingleListener ==
    /\ wv.livePanels <= 1
    /\ wv.liveListeners <= 1
    /\ wv.panel <=> wv.livePanels = 1
    /\ ~wv.panel => wv.selectionListener # "live" /\ wv.liveListeners = 0
    /\ (wv.op = "selectionChange" /\ ~wv.panel) => ~wv.posted

\* after shows for two editors the panel was disposed, and the cursor of the
\* editor of the last show moved
C29_Witness ==
    /\ wv.op = "selectionChange"
    /\ ~wv.panel
    /\ wv.selectionListener = "disposed"
    /\ wv.handlerEditor # NoEditor
    /\ wv.listenerEditor \in Editors \ {wv.handlerEditor}
    /\ wv.selection[wv.listenerEditor].set

====
